---- MODULE Spec2Model ----
(***************************************************************************)
(* Model of HAWebsocketDurableObject (src/src/durable/haWebsocket.ts): one *)
(* Durable Object instance that holds the upstream Home Assistant          *)
(* websocket and multiplexes it to downstream client sockets.              *)
(*                                                                         *)
(* One action is one turn of the JavaScript event loop: a handler runs     *)
(* without interleaving until it returns or suspends in an awaited fetch.  *)
(* The turn that resumes ensureHaConnection after its fetch is split in    *)
(* two at the auth send (line 101) so that the order of lines 66-68 and    *)
(* line 101 is visible; nothing else can run between the two halves.       *)
(* The constructor runs ensureHaConnection under blockConcurrencyWhile: no  *)
(* event is delivered until it has completed, and when it rejects the       *)
(* runtime discards the instance, so no further step is taken.              *)
(***************************************************************************)
EXTENDS Integers, Sequences, FiniteSets, TLC

\* ---------------------------------------------------------------- bounds
MaxRequests == 2
MaxUpstream == 2
MaxEvents == 1
\* bounds of the relay specification: few connections, more messages
MaxRelayRequests == 1
MaxRelayUpstream == 1
MaxRelayEvents == 3
\* bounds of the fair specification: one reconnecting request
MaxFairRequests == 1
MaxFairUpstream == 2
MaxFairEvents == 1
\* bounds of the teardown specification
MaxTeardownRequests == 2
MaxTeardownUpstream == 1
MaxTeardownEvents == 1
\* bound of the agent specification: concurrent chat calls
MaxChats == 2

\* ------------------------------------------------------------- constants
Null == 0
CTOR == 0
UpstreamLossCode == 1012
Token == "llt"
Throw == "throw"

Requests == 1..MaxRequests
Callers == {CTOR} \cup Requests
Handles == 1..MaxUpstream
Bodies == 1..(IF MaxRelayEvents > MaxEvents THEN MaxRelayEvents ELSE MaxEvents)
HassioUrls == {"https://ha", "ha"}
Chats == 1..MaxChats
\* parsed.data.sessionId: a session id, or NoSession when the request has
\* none (undefined, or the empty string, which !sessionId treats alike)
SessionIds == {"s1", "s2"}
NoSession == ""

VARIABLES
  quota,        \* the bounds of this run: requests, upstream connections, events,
                \* and whether close() failures of a teardown are explored
  env,          \* env.HASSIO_URL of this instance
  pc,           \* position of the constructor (CTOR) and of each /connect request
  haSocket,     \* this.haSocket: handle of the upstream connection, or Null
  haConnected,  \* this.haConnected
  clients,      \* this.clients
  upState,      \* upstream connection h: "unused", "open", "errored" (error event
                \* delivered, not yet closed) or "closed"
  upSent,       \* messages sent on upstream h, in order
  cstate,       \* server side socket of client c: "none", "open", "closed"
  closeIssued,  \* code passed to close() on client c's socket, 0 if none
  crecv,        \* messages sent to client c, in order
  resp,         \* response of /connect request r
  lastResp,     \* response of the /status or unknown-path request handled in the last step
  events,       \* number of message events and /status or unknown-path requests
                \* handled so far; a message delivered as event k carries body k
  ev,           \* the message or upstream close event handled in the last step:
                \* its source, its data, the sockets send() or close() was
                \* called on and those for which the call threw
  MEMORY_KV,    \* env.MEMORY_KV: the record ids stored under memory:<sessionId>
  chatPc,       \* position of chat call k in HassAgent.chat
  chatSession,  \* sessionId of chat call k, NoSession if the request has none
  memories,     \* chat's local `memories` of call k (agent.ts line 86)
  current       \* persistMemory's local `current` of call k (agent.ts line 64)

\* the state of the agent and of its KV namespace
agentVars == <<MEMORY_KV, chatPc, chatSession, memories, current>>

\* the state of the websocket multiplexer
muxVars == <<quota, env, pc, haSocket, haConnected, clients, upState, upSent, cstate, closeIssued, crecv, resp, lastResp, events, ev>>

vars == <<muxVars, agentVars>>

\* ---------------------------------------------------------- pure helpers
\* HomeAssistantClient.websocketUrl: new URL() throws on an unparseable
\* HASSIO_URL; https becomes wss, anything else ws; the path is replaced.
websocketUrl(u) ==
  CASE u = "https://ha" -> "wss://ha/api/websocket"
    [] u = "http://ha"  -> "ws://ha/api/websocket"
    [] OTHER            -> Throw

\* HomeAssistantClient.buildWebsocketAuthMessage
buildWebsocketAuthMessage == [type |-> "auth", access_token |-> Token]

\* the connection_info message of attachClient
ConnectionInfo(c, connected) ==
  [type |-> "connection_info", clientId |-> c, connected |-> connected]

\* an opaque relayed payload
Payload(b) == [type |-> "payload", body |-> b]
\* mutant: the liveness test looks at the handle only
SessionLive_HandleOnly == haSocket # Null

\* the liveness test at the top of ensureHaConnection
SessionLive == haSocket # Null /\ haConnected

\* a resumed ensureHaConnection is between line 68 and line 101
Busy == \E x \in Callers : pc[x] = "installed"

\* blockConcurrencyWhile of the constructor has completed and no
\* synchronous section is in progress: events may be delivered
Deliverable == pc[CTOR] = "done" /\ ~Busy

opened == Cardinality({h \in Handles : upState[h] # "unused"})
\* number of /connect requests whose handleConnect has started
received == Cardinality({r \in Requests : pc[r] # "idle"})
OpenHandles == {h \in Handles : upState[h] \in {"open", "errored"}}

\* no message event was handled in the last step
NoEv == [kind |-> "none", src |-> 0, data |-> Payload(0), tried |-> {},
         threw |-> {}]
NoEvent == ev' = NoEv

\* ------------------------------------------------------------------ Init
\* fields of a freshly constructed instance; the constructor's callback has
\* not run yet
InitFields ==
  /\ env \in HassioUrls
  /\ pc = [x \in Callers |-> "idle"]
  /\ haSocket = Null
  /\ haConnected = FALSE
  /\ clients = {}
  /\ upState = [h \in Handles |-> "unused"]
  /\ upSent = [h \in Handles |-> <<>>]
  /\ cstate = [r \in Requests |-> "none"]
  /\ closeIssued = [r \in Requests |-> 0]
  /\ crecv = [r \in Requests |-> <<>>]
  /\ resp = [r \in Requests |-> "none"]
  /\ lastResp = [status |-> 0, clients |-> 0, connected |-> FALSE]
  /\ events = 0
  /\ ev = NoEv
  /\ MEMORY_KV = [s \in SessionIds |-> <<>>]
  /\ chatPc = [k \in Chats |-> "idle"]
  /\ chatSession = [k \in Chats |-> NoSession]
  /\ memories = [k \in Chats |-> <<>>]
  /\ current = [k \in Chats |-> <<>>]

Init ==
  /\ quota = [req |-> MaxRequests, up |-> MaxUpstream, ev |-> MaxEvents,
              closeFaults |-> FALSE]
  /\ InitFields

InitRelay ==
  /\ quota = [req |-> MaxRelayRequests, up |-> MaxRelayUpstream,
              ev |-> MaxRelayEvents, closeFaults |-> FALSE]
  /\ InitFields

InitTeardown ==
  /\ quota = [req |-> MaxTeardownRequests, up |-> MaxTeardownUpstream,
              ev |-> MaxTeardownEvents, closeFaults |-> TRUE]
  /\ InitFields

\* ------------------------------------------------------------ operations
\* a step that handles no /status or unknown-path request returns no such
\* response
NoResp == [status |-> 0, clients |-> 0, connected |-> FALSE]
NoProbe == lastResp' = NoResp
\* mutant: the client is registered but its connection_info is sent later,
\* never in the step that accepts it
attachClient_NoInfo(c) ==
  /\ cstate' = [cstate EXCEPT ![c] = "open"]
  /\ clients' = clients \cup {c}
  /\ crecv' = crecv

\* attachClient(socket): accept, register, send connection_info.
attachClient(c) ==
  /\ cstate' = [cstate EXCEPT ![c] = "open"]
  /\ clients' = clients \cup {c}
  /\ crecv' = [crecv EXCEPT ![c] = Append(@, ConnectionInfo(c, haConnected))]

\* handleConnect after ensureHaConnection has returned: attach the server
\* side socket and answer 101 with the client side socket.
handleConnectReturn(r) ==
  /\ attachClient(r)
  /\ resp' = [resp EXCEPT ![r] = "101"]
  /\ pc' = [pc EXCEPT ![r] = "done"]

\* variant of handleConnectThrow: the failure is swallowed and the client is
\* attached all the same
handleConnectThrow_Swallowed(x) ==
  /\ pc' = [pc EXCEPT ![x] = "failed"]
  /\ IF x \in Requests
       THEN attachClient(x) /\ resp' = [resp EXCEPT ![x] = "101"]
       ELSE UNCHANGED <<clients, cstate, crecv, resp>>

\* handleConnect when ensureHaConnection has thrown: the rejection
\* propagates out of fetch(); nothing after line 139 runs.
handleConnectThrow(x) ==
  /\ pc' = [pc EXCEPT ![x] = "failed"]
  /\ resp' = IF x \in Requests THEN [resp EXCEPT ![x] = "error"] ELSE resp
  /\ UNCHANGED <<clients, cstate, crecv>>

\* variant of Construct: the constructor opens nothing
Construct_Lazy ==
  /\ pc[CTOR] = "idle"
  /\ pc' = [pc EXCEPT ![CTOR] = "done"]
  /\ NoProbe
  /\ NoEvent
  /\ UNCHANGED agentVars
  /\ UNCHANGED <<quota, env, haSocket, haConnected, clients, upState, upSent, cstate, closeIssued, crecv, resp, events>>

\* constructor: blockConcurrencyWhile(() => ensureHaConnection()), run up to
\* the awaited fetch.
Construct ==
  /\ pc[CTOR] = "idle"
  /\ IF SessionLive
       THEN pc' = [pc EXCEPT ![CTOR] = "done"]
       ELSE IF websocketUrl(env) = Throw
              THEN pc' = [pc EXCEPT ![CTOR] = "failed"]
              ELSE pc' = [pc EXCEPT ![CTOR] = "fetching"]
  /\ NoProbe
  /\ NoEvent
  /\ UNCHANGED agentVars
  /\ UNCHANGED <<quota, env, haSocket, haConnected, clients, upState, upSent, cstate, closeIssued, crecv, resp, events>>

\* fetch("/connect") -> handleConnect, run up to the awaited fetch of
\* ensureHaConnection, or to the end when the session is live.
HandleConnect(r) ==
  /\ Deliverable
  /\ pc[r] = "idle"
  /\ r = received + 1
  /\ r <= quota.req
  /\ IF SessionLive
       THEN /\ handleConnectReturn(r)
            /\ UNCHANGED <<haSocket, haConnected>>
       ELSE IF websocketUrl(env) = Throw
              THEN /\ handleConnectThrow(r)
                   /\ UNCHANGED <<haSocket, haConnected>>
              ELSE /\ pc' = [pc EXCEPT ![r] = "fetching"]
                   /\ UNCHANGED <<haSocket, haConnected, clients, cstate,
                                  crecv, resp>>
  /\ NoProbe
  /\ NoEvent
  /\ UNCHANGED agentVars
  /\ UNCHANGED <<quota, env, upState, upSent, closeIssued,
                 events>>

\* the awaited fetch rejects, or its response carries no webSocket (line 63
\* throws): either way ensureHaConnection rejects with nothing assigned
FetchFails(x) ==
  /\ pc[x] = "fetching"
  /\ x = CTOR \/ Deliverable
  /\ handleConnectThrow(x)
  /\ NoProbe
  /\ NoEvent
  /\ UNCHANGED agentVars
  /\ UNCHANGED <<quota, env, haSocket, haConnected, upState, upSent, closeIssued, events>>
\* mutant: the resumed call installs the socket but leaves the flag false
FetchInstalls_NoLive(x) ==
  /\ pc[x] = "fetching"
  /\ x = CTOR \/ Deliverable
  /\ opened < quota.up
  /\ LET h == opened + 1 IN
       /\ upState' = [upState EXCEPT ![h] = "open"]
       /\ haSocket' = h
  /\ pc' = [pc EXCEPT ![x] = "installed"]
  /\ NoProbe
  /\ NoEvent
  /\ UNCHANGED agentVars
  /\ UNCHANGED <<quota, env, haConnected, clients, upSent, cstate, closeIssued,
                 crecv, resp, events>>

\* the awaited fetch returns a webSocket: lines 61-98
FetchInstalls(x) ==
  /\ pc[x] = "fetching"
  /\ x = CTOR \/ Deliverable
  /\ opened < quota.up
  /\ LET h == opened + 1 IN
       /\ upState' = [upState EXCEPT ![h] = "open"]
       /\ haSocket' = h
       /\ haConnected' = TRUE
  /\ pc' = [pc EXCEPT ![x] = "installed"]
  /\ NoProbe
  /\ NoEvent
  /\ UNCHANGED agentVars
  /\ UNCHANGED <<quota, env, clients, upSent, cstate, closeIssued, crecv,
                 resp, events>>

\* line 101 succeeds; the constructor's callback is done, a /connect
\* request goes on to attach its client
AuthSendReturns(x) ==
  /\ pc[x] = "installed"
  /\ upSent' = [upSent EXCEPT ![haSocket] = Append(@, buildWebsocketAuthMessage)]
  /\ IF x = CTOR
       THEN /\ pc' = [pc EXCEPT ![x] = "done"]
            /\ UNCHANGED <<clients, cstate, crecv, resp>>
       ELSE handleConnectReturn(x)
  /\ NoProbe
  /\ NoEvent
  /\ UNCHANGED agentVars
  /\ UNCHANGED <<quota, env, haSocket, haConnected, upState, closeIssued, events>>

\* line 101 throws
AuthSendThrows(x) ==
  /\ pc[x] = "installed"
  /\ handleConnectThrow(x)
  /\ NoProbe
  /\ NoEvent
  /\ UNCHANGED agentVars
  /\ UNCHANGED <<quota, env, haSocket, haConnected, upState, upSent, closeIssued, events>>
\* mutant: one try/catch around the whole loop, so the first send that throws
\* ends the broadcast (clients are visited in insertion order, here by id)
UpstreamMessage_AbortOnThrow(h, b) ==
  /\ Deliverable
  /\ h \in OpenHandles
  /\ clients # {}
  /\ events < quota.ev
  /\ b = events + 1
  /\ \E failing \in {{}} \cup {{c} : c \in clients} :
       LET reached == {c \in clients : \A f \in failing : c <= f} IN
         /\ crecv' = [c \in Requests |->
                        IF c \in reached \ failing
                          THEN Append(crecv[c], Payload(b))
                          ELSE crecv[c]]
         /\ ev' = [kind |-> "upstream", src |-> h, data |-> Payload(b),
                   tried |-> reached, threw |-> failing]
  /\ events' = events + 1
  /\ NoProbe
  /\ UNCHANGED agentVars
  /\ UNCHANGED <<quota, env, pc, haSocket, haConnected, clients, upState,
                 upSent, cstate, closeIssued, resp>>
\* mutant: the broadcast re-encodes the message instead of passing event.data
UpstreamMessage_Rewrap(h, b) ==
  /\ Deliverable
  /\ h \in OpenHandles
  /\ clients # {}
  /\ events < quota.ev
  /\ b = events + 1
  /\ \E failing \in {{}} \cup {{c} : c \in clients} :
       /\ crecv' = [c \in Requests |->
                      IF c \in clients \ failing
                        THEN Append(crecv[c], [type |-> "event", body |-> b])
                        ELSE crecv[c]]
       /\ ev' = [kind |-> "upstream", src |-> h, data |-> Payload(b),
                 tried |-> clients, threw |-> failing]
  /\ events' = events + 1
  /\ NoProbe
  /\ UNCHANGED agentVars
  /\ UNCHANGED <<quota, env, pc, haSocket, haConnected, clients, upState,
                 upSent, cstate, closeIssued, resp>>
\* mutant: a client whose send throws is dropped from the set
UpstreamMessage_EvictsFailed(h, b) ==
  /\ Deliverable
  /\ h \in OpenHandles
  /\ clients # {}
  /\ events < quota.ev
  /\ b = events + 1
  /\ \E failing \in {{}} \cup {{c} : c \in clients} :
       /\ crecv' = [c \in Requests |->
                      IF c \in clients \ failing
                        THEN Append(crecv[c], Payload(b))
                        ELSE crecv[c]]
       /\ ev' = [kind |-> "upstream", src |-> h, data |-> Payload(b),
                 tried |-> clients, threw |-> failing]
       /\ clients' = clients \ failing
  /\ events' = events + 1
  /\ NoProbe
  /\ UNCHANGED agentVars
  /\ UNCHANGED <<quota, env, pc, haSocket, haConnected, upState,
                 upSent, cstate, closeIssued, resp>>

\* "message" listener of upstream h: broadcast; a send that throws is caught
\* (at most one per broadcast here).  With no client registered the loop body
\* never runs and the event changes nothing, so it is left to stuttering.
UpstreamMessage(h, b) ==
  /\ Deliverable
  /\ h \in OpenHandles
  /\ clients # {}
  /\ events < quota.ev
  /\ b = events + 1
  /\ \E failing \in {{}} \cup {{c} : c \in clients} :
       /\ crecv' = [c \in Requests |->
                      IF c \in clients \ failing
                        THEN Append(crecv[c], Payload(b))
                        ELSE crecv[c]]
       /\ ev' = [kind |-> "upstream", src |-> h, data |-> Payload(b),
                 tried |-> clients, threw |-> failing]
  /\ events' = events + 1
  /\ NoProbe
  /\ UNCHANGED agentVars
  /\ UNCHANGED <<quota, env, pc, haSocket, haConnected, clients, upState,
                 upSent, cstate, closeIssued, resp>>

\* the clients whose close() throws in one teardown: none, or one of the
\* members when this run explores close() failures
CloseFailures ==
  IF quota.closeFaults THEN {{}} \cup {{c} : c \in clients} ELSE {{}}

\* variant of UpstreamCloseListener: the client set is not cleared
UpstreamCloseListener_NoClear(h) ==
  /\ haConnected' = FALSE
  /\ haSocket' = Null
  /\ closeIssued' = [c \in Requests |->
                       IF c \in clients THEN UpstreamLossCode ELSE closeIssued[c]]
  /\ NoEvent
  /\ UNCHANGED clients

\* mutant: one try/catch around the loop and the clear, so a close() that
\* throws ends the teardown (clients are visited in insertion order, here by
\* id)
UpstreamCloseListener_AbortOnThrow(h) ==
  /\ haConnected' = FALSE
  /\ haSocket' = Null
  /\ \E failing \in CloseFailures :
       LET reached == {c \in clients : \A f \in failing : c <= f} IN
         /\ closeIssued' = [c \in Requests |->
                              IF c \in reached THEN UpstreamLossCode
                                               ELSE closeIssued[c]]
         /\ ev' = IF quota.closeFaults
                     THEN [kind |-> "close", src |-> h, data |-> Payload(0),
                           tried |-> reached, threw |-> failing]
                     ELSE NoEv
         /\ clients' = IF failing = {} THEN {} ELSE clients

\* "close" listener of upstream h: lines 82-94.  close(1012) is called on
\* every member; a call that throws is caught (at most one per teardown
\* here); then the set is cleared.
UpstreamCloseListener(h) ==
  /\ haConnected' = FALSE
  /\ haSocket' = Null
  /\ closeIssued' = [c \in Requests |->
                       IF c \in clients THEN UpstreamLossCode ELSE closeIssued[c]]
  /\ \E failing \in CloseFailures :
       ev' = IF quota.closeFaults
               THEN [kind |-> "close", src |-> h, data |-> Payload(0),
                     tried |-> clients, threw |-> failing]
               ELSE NoEv
  /\ clients' = {}

UpstreamClose(h) ==
  /\ Deliverable
  /\ h \in OpenHandles
  /\ upState' = [upState EXCEPT ![h] = "closed"]
  /\ UpstreamCloseListener(h)
  /\ NoProbe
  /\ UNCHANGED agentVars
  /\ UNCHANGED <<quota, env, pc, upSent, cstate, crecv, resp,
                 events>>
\* mutant: the error listener drops the handle and leaves the flag
UpstreamErrorListener_NullsHandle(h) ==
  /\ haSocket' = Null
  /\ UNCHANGED <<haConnected, clients, closeIssued>>

\* "error" listener of upstream h: lines 96-98
UpstreamErrorListener(h) ==
  /\ haConnected' = FALSE
  /\ UNCHANGED <<haSocket, clients, closeIssued>>

\* variant of UpstreamError: the error listener reconnects by itself
UpstreamError_Reconnect(h) ==
  /\ Deliverable
  /\ upState[h] = "open"
  /\ IF opened < quota.up
       THEN /\ upState' = [upState EXCEPT ![h] = "errored",
                                          ![opened + 1] = "open"]
            /\ haSocket' = opened + 1
            /\ haConnected' = TRUE
       ELSE /\ upState' = [upState EXCEPT ![h] = "errored"]
            /\ haConnected' = FALSE
            /\ UNCHANGED haSocket
  /\ NoProbe
  /\ NoEvent
  /\ UNCHANGED agentVars
  /\ UNCHANGED <<quota, env, pc, clients, closeIssued, upSent, cstate, crecv, resp,
                 events>>

UpstreamError(h) ==
  /\ Deliverable
  /\ upState[h] = "open"
  /\ upState' = [upState EXCEPT ![h] = "errored"]
  /\ UpstreamErrorListener(h)
  /\ NoProbe
  /\ NoEvent
  /\ UNCHANGED agentVars
  /\ UNCHANGED <<quota, env, pc, upSent, cstate, crecv, resp, events>>
\* mutant: the forwarded message is put ahead of what upstream already got
ClientMessage_Prepend(c, b) ==
  /\ Deliverable
  /\ cstate[c] = "open"
  /\ events < quota.ev
  /\ b = events + 1
  /\ IF haSocket = Null \/ haSocket \notin OpenHandles
       THEN /\ UNCHANGED upSent
            /\ ev' = [kind |-> "client", src |-> c, data |-> Payload(b),
                      tried |-> {}, threw |-> {}]
       ELSE \E ok \in BOOLEAN :
              /\ upSent' = IF ok
                             THEN [upSent EXCEPT ![haSocket] =
                                     <<[from |-> c, data |-> Payload(b)]>> \o @]
                             ELSE upSent
              /\ ev' = [kind |-> "client", src |-> c, data |-> Payload(b),
                        tried |-> {haSocket},
                        threw |-> IF ok THEN {} ELSE {haSocket}]
  /\ events' = events + 1
  /\ NoProbe
  /\ UNCHANGED agentVars
  /\ UNCHANGED <<quota, env, pc, haSocket, haConnected, clients, upState,
                 cstate, closeIssued, crecv, resp>>

\* "message" listener of client c: lines 167-177
ClientMessage(c, b) ==
  /\ Deliverable
  /\ cstate[c] = "open"
  /\ events < quota.ev
  /\ b = events + 1
  /\ IF haSocket = Null \/ haSocket \notin OpenHandles
       THEN /\ UNCHANGED upSent
            /\ ev' = [kind |-> "client", src |-> c, data |-> Payload(b),
                      tried |-> {}, threw |-> {}]
       ELSE \E ok \in BOOLEAN :
              /\ upSent' = IF ok
                             THEN [upSent EXCEPT ![haSocket] =
                                     Append(@, [from |-> c, data |-> Payload(b)])]
                             ELSE upSent
              /\ ev' = [kind |-> "client", src |-> c, data |-> Payload(b),
                        tried |-> {haSocket},
                        threw |-> IF ok THEN {} ELSE {haSocket}]
  /\ events' = events + 1
  /\ NoProbe
  /\ UNCHANGED agentVars
  /\ UNCHANGED <<quota, env, pc, haSocket, haConnected, clients, upState,
                 cstate, closeIssued, crecv, resp>>
\* mutant: when the last client leaves, the upstream session is given up
ClientClose_DropsUpstream(c) ==
  /\ Deliverable
  /\ cstate[c] = "open"
  /\ cstate' = [cstate EXCEPT ![c] = "closed"]
  /\ clients' = clients \ {c}
  /\ IF clients' = {}
       THEN haSocket' = Null /\ haConnected' = FALSE
       ELSE UNCHANGED <<haSocket, haConnected>>
  /\ NoProbe
  /\ NoEvent
  /\ UNCHANGED agentVars
  /\ UNCHANGED <<quota, env, pc, upState, upSent, closeIssued, crecv, resp, events>>
\* mutant: the close listener forgets to delete the socket
ClientClose_KeepsMember(c) ==
  /\ Deliverable
  /\ cstate[c] = "open"
  /\ cstate' = [cstate EXCEPT ![c] = "closed"]
  /\ NoProbe
  /\ NoEvent
  /\ UNCHANGED agentVars
  /\ UNCHANGED <<quota, env, pc, haSocket, haConnected, clients, upState, upSent, closeIssued, crecv, resp, events>>

\* "close" listener of client c: lines 180-182
ClientClose(c) ==
  /\ Deliverable
  /\ cstate[c] = "open"
  /\ cstate' = [cstate EXCEPT ![c] = "closed"]
  /\ clients' = clients \ {c}
  /\ NoProbe
  /\ NoEvent
  /\ UNCHANGED agentVars
  /\ UNCHANGED <<quota, env, pc, haSocket, haConnected, upState, upSent, closeIssued, crecv, resp, events>>
\* mutant: /status reports every client ever accepted, not the current set
Status_CountsAccepted ==
  /\ Deliverable
  /\ events < quota.ev
  /\ events' = events + 1
  /\ lastResp' = [status |-> 200,
                  clients |-> Cardinality({c \in Requests : cstate[c] # "none"}),
                  connected |-> haConnected]
  /\ NoEvent
  /\ UNCHANGED agentVars
  /\ UNCHANGED <<quota, env, pc, haSocket, haConnected, clients, upState, upSent, cstate, closeIssued, crecv, resp>>

\* fetch("/status"); the number of such requests is capped with the events
Status ==
  /\ Deliverable
  /\ events < quota.ev
  /\ events' = events + 1
  /\ lastResp' = [status |-> 200, clients |-> Cardinality(clients),
                  connected |-> haConnected]
  /\ NoEvent
  /\ UNCHANGED agentVars
  /\ UNCHANGED <<quota, env, pc, haSocket, haConnected, clients, upState, upSent, cstate, closeIssued, crecv, resp>>

\* fetch of any other path
NotFound ==
  /\ Deliverable
  /\ events < quota.ev
  /\ events' = events + 1
  /\ lastResp' = [status |-> 404, clients |-> 0, connected |-> FALSE]
  /\ NoEvent
  /\ UNCHANGED agentVars
  /\ UNCHANGED <<quota, env, pc, haSocket, haConnected, clients, upState, upSent, cstate, closeIssued, crecv, resp>>

Next ==
  \/ Construct
  \/ \E r \in Requests : HandleConnect(r)
  \/ \E x \in Callers : FetchFails(x)
  \/ \E x \in Callers : FetchInstalls(x)
  \/ \E x \in Callers : AuthSendReturns(x)
  \/ \E x \in Callers : AuthSendThrows(x)
  \/ \E h \in Handles, b \in Bodies : UpstreamMessage(h, b)
  \/ \E h \in Handles : UpstreamClose(h)
  \/ \E h \in Handles : UpstreamError(h)
  \/ \E c \in Requests, b \in Bodies : ClientMessage(c, b)
  \/ \E c \in Requests : ClientClose(c)
  \/ Status
  \/ NotFound

Spec == Init /\ [][Next]_vars

\* the same instance with few connections and more message events
SpecRelay == InitRelay /\ [][Next]_vars

\* the same instance with two clients, one upstream connection, and close()
\* calls of the teardown that may throw
SpecTeardown == InitTeardown /\ [][Next]_vars

\* an awaited fetch settles, and the code after the await then runs to its end
Fairness ==
  \A x \in Callers :
    /\ WF_vars(FetchFails(x) \/ FetchInstalls(x))
    /\ WF_vars(AuthSendReturns(x) \/ AuthSendThrows(x))

InitFair ==
  /\ quota = [req |-> MaxFairRequests, up |-> MaxFairUpstream,
              ev |-> MaxFairEvents, closeFaults |-> FALSE]
  /\ InitFields

SpecFair == InitFair /\ [][Next]_vars /\ Fairness

\* ------------------------------------------------------------ the agent
\* HassAgent.chat (agent.ts lines 77-135) for a request that parses; each
\* await is a point where another chat call may run.  The id of the record
\* call k persists is k (crypto.randomUUID() at line 115).

\* lines 78-86: parse, then fetchMemories(sessionId) for the prompt
ChatFetchMemories(k) ==
  /\ chatPc[k] = "idle"
  /\ \E sid \in SessionIds \cup {NoSession} :
       /\ chatSession' = [chatSession EXCEPT ![k] = sid]
       /\ memories' = [memories EXCEPT ![k] =
                         IF sid = NoSession THEN <<>> ELSE MEMORY_KV[sid]]
  /\ chatPc' = [chatPc EXCEPT ![k] = "prompted"]
  /\ UNCHANGED <<MEMORY_KV, current>>
  /\ UNCHANGED muxVars

\* line 110: env.AI.run resolves; without a sessionId nothing is persisted
\* and the call goes on to its response (lines 113, 127)
ChatAiRun(k) ==
  /\ chatPc[k] = "prompted"
  /\ chatPc' = [chatPc EXCEPT ![k] =
                  IF chatSession[k] = NoSession THEN "done" ELSE "answered"]
  /\ UNCHANGED <<MEMORY_KV, chatSession, memories, current>>
  /\ UNCHANGED muxVars

\* line 110: env.AI.run rejects, and chat rejects with it
ChatAiFails(k) ==
  /\ chatPc[k] = "prompted"
  /\ chatPc' = [chatPc EXCEPT ![k] = "failed"]
  /\ UNCHANGED <<MEMORY_KV, chatSession, memories, current>>
  /\ UNCHANGED muxVars

\* persistMemory lines 64-65: read the stored list, push the new record
PersistGet(k) ==
  /\ chatPc[k] = "answered"
  /\ current' = [current EXCEPT ![k] = Append(MEMORY_KV[chatSession[k]], k)]
  /\ chatPc' = [chatPc EXCEPT ![k] = "pushed"]
  /\ UNCHANGED <<MEMORY_KV, chatSession, memories>>
  /\ UNCHANGED muxVars

\* persistMemory line 67: write the list back; chat then returns (line 127)
PersistPut(k) ==
  /\ chatPc[k] = "pushed"
  /\ MEMORY_KV' = [MEMORY_KV EXCEPT ![chatSession[k]] = current[k]]
  /\ chatPc' = [chatPc EXCEPT ![k] = "done"]
  /\ UNCHANGED <<chatSession, memories, current>>
  /\ UNCHANGED muxVars

NextAgent ==
  \/ \E k \in Chats : ChatFetchMemories(k)
  \/ \E k \in Chats : ChatAiRun(k)
  \/ \E k \in Chats : ChatAiFails(k)
  \/ \E k \in Chats : PersistGet(k)
  \/ \E k \in Chats : PersistPut(k)

\* chat calls of the worker, the multiplexer left as constructed
SpecAgent == Init /\ [][NextAgent]_vars

TypeOK ==
  /\ env \in HassioUrls
  /\ pc \in [Callers -> {"idle", "fetching", "installed", "done", "failed"}]
  /\ haSocket \in Handles \cup {Null}
  /\ haConnected \in BOOLEAN
  /\ clients \subseteq Requests
  /\ upState \in [Handles -> {"unused", "open", "errored", "closed"}]
  /\ events \in 0..quota.ev

\* ---------------------------------------------------------------- claims
\* the auth message is the first message sent on upstream h
AuthSentOn(h) == Len(upSent[h]) > 0 /\ upSent[h][1] = buildWebsocketAuthMessage

\* the upstream session has dropped at least once (close or error event)
Dropped == \E h \in Handles : upState[h] \in {"errored", "closed"}

\* request r is handled in this step from receipt to its 101 response,
\* ensureHaConnection finding the session live
ConnectWhileLive(r) == SessionLive /\ pc[r] = "idle" /\ pc'[r] = "done"

\* C1: at most one upstream connection is open at any instant:
\* ensureHaConnection never opens a new one while a previously opened one has
\* not yet closed.
C1_AtMostOneUpstreamOpen == Cardinality(OpenHandles) <= 1

\* C2: a /connect request handled while the session is live opens no upstream
\* connection and sends no auth message, and exactly one upstream connection
\* exists before and after it.
C2_LiveConnectIdempotent ==
  [][\A r \in Requests :
       ConnectWhileLive(r) =>
         /\ opened' = opened
         /\ upSent' = upSent
         /\ haSocket' = haSocket
         /\ Cardinality(OpenHandles) = 1
         /\ Cardinality(OpenHandles') = 1]_vars

\* C3: the step in which an upstream connection closes leaves the client set
\* empty, the liveness flag false and no handle held, and has issued
\* close(1012) on every client registered when it began.
C3_CloseTearsDown ==
  [][\A h \in Handles :
       (h \in OpenHandles /\ upState'[h] = "closed") =>
         /\ clients' = {}
         /\ haConnected' = FALSE
         /\ haSocket' = Null
         /\ \A c \in clients : closeIssued'[c] = UpstreamLossCode]_vars

\* C3 witness: an upstream connection has closed while a client was
\* registered; that client was closed with 1012 and the set is empty.
C3_Witness ==
  /\ \E h \in Handles : upState[h] = "closed"
  /\ \E c \in Requests : closeIssued[c] = UpstreamLossCode /\ c \notin clients
  /\ clients = {}
  /\ ~haConnected
  /\ haSocket = Null

\* C4: the step that handles an upstream error event leaves the liveness flag
\* false, has closed every registered client with 1012 and leaves the client
\* set empty.
C4_ErrorTearsDown ==
  [][\A h \in Handles :
       (upState[h] = "open" /\ upState'[h] = "errored") =>
         /\ haConnected' = FALSE
         /\ clients' = {}
         /\ \A c \in clients : closeIssued'[c] = UpstreamLossCode]_vars

\* C5: whenever the client set is non-empty the liveness flag is true.
C5_ClientsImplyLive == clients # {} => haConnected

\* C6: a /connect request whose ensureHaConnection failed has accepted no
\* client socket, registered nothing, sent no connection_info and returned no
\* 101 response.
C6_FailedConnectRegistersNothing ==
  \A r \in Requests :
    pc[r] = "failed" =>
      /\ r \notin clients
      /\ cstate[r] = "none"
      /\ crecv[r] = <<>>
      /\ resp[r] = "error"

\* C6 witness: a /connect request has failed while the session was not live
\* and an earlier client of the instance had been served.
C6_Witness ==
  \E r \in Requests :
    /\ pc[r] = "failed"
    /\ resp[r] = "error"
    /\ \E q \in Requests : q # r /\ resp[q] = "101"

\* C7: when ensureHaConnection fails, the liveness flag is false at the moment
\* the failure is surfaced to its caller.
C7_FailureLeavesNotLive ==
  [][\A x \in Callers :
       (pc[x] # "failed" /\ pc'[x] = "failed") => haConnected' = FALSE]_vars

\* C8: the liveness flag becomes true only once the auth message has been
\* sent on the newly opened upstream connection.
C8_LiveOnlyAfterAuth ==
  [][(~haConnected /\ haConnected') =>
       (haSocket' # Null /\ Len(upSent'[haSocket']) > 0)]_vars

\* C9 (as stated): no upstream connection is opened before the first /connect
\* request has been received.
C9_NoPreemptiveOpen == opened > 0 => received > 0

\* C9 (amended): the first upstream connection is opened by the constructor,
\* before any /connect request has been received; every later one is opened
\* by a /connect request resuming from its fetch.
C9_OpenedByCtorThenOnDemand ==
  [][opened' > opened =>
       IF opened = 0
         THEN pc[CTOR] = "fetching" /\ pc'[CTOR] = "installed" /\ received = 0
         ELSE \E r \in Requests : pc[r] = "fetching" /\ pc'[r] = "installed"]_vars

\* C9 witness: the constructor has opened the first upstream connection and
\* no /connect request has been received.
C9_Witness ==
  /\ upState[1] = "open"
  /\ haSocket = 1
  /\ pc[CTOR] = "done"
  /\ received = 0

\* C10: once the session has dropped (a close or error event has been
\* delivered, this step's included), a step opens an upstream connection only
\* if it resumes a /connect request, and a /connect request starts a
\* connection attempt only after a drop; upstream events, client messages,
\* client closes and status requests open nothing.
C10_ReconnectOnDemandOnly ==
  [][/\ (Dropped' /\ opened' > opened) =>
          \E r \in Requests : pc[r] = "fetching" /\ pc'[r] = "installed"
     /\ \A r \in Requests :
          (pc[r] = "idle" /\ pc'[r] = "fetching") => Dropped]_vars

\* C10 witness: after a drop, a /connect request has opened a new upstream
\* connection and registered its client.
C10_Witness ==
  \E r \in Requests :
    /\ Dropped
    /\ upState[2] = "open"
    /\ haSocket = 2
    /\ haConnected
    /\ pc[r] = "done"
    /\ r \in clients

\* request r has been answered 101 and its client is registered against a
\* live session whose upstream connection is open and has carried the auth
\* message and nothing else
Registered(r) ==
  /\ pc[r] = "done"
  /\ r \in clients
  /\ SessionLive
  /\ upState[haSocket] = "open"
  /\ upSent[haSocket] = <<buildWebsocketAuthMessage>>

\* C11: after an upstream loss the instance stays serviceable: a /connect
\* request that starts a connection attempt after the drop eventually either
\* fails (upstream unreachable or auth send failed) or has opened a fresh
\* upstream connection, sent the auth message on it, set the session live and
\* registered its client.
C11_ServiceableAfterLoss ==
  \A r \in Requests :
    (Dropped /\ pc[r] = "fetching") ~> (pc[r] = "failed" \/ Registered(r))

\* C11 witness: upstream connection 1 has closed, and a later /connect request
\* has been registered on the fresh connection 2, auth sent, session live.
C11_Witness ==
  \E r \in Requests :
    /\ upState[1] = "closed"
    /\ haSocket = 2
    /\ Registered(r)
    /\ crecv[r] = <<ConnectionInfo(r, TRUE)>>

\* C12: a step that handles an upstream message calls send on every client
\* that was in the set when the step began, with the message's data; each
\* client whose send did not throw has received it, a send that throws changes
\* nothing for the others, and the set itself is as before.
C12_BroadcastReachesAll ==
  [][ev'.kind = "upstream" =>
       /\ ev'.tried = clients
       /\ ev'.threw \subseteq clients
       /\ \A c \in clients :
            crecv'[c] = IF c \in ev'.threw
                          THEN crecv[c]
                          ELSE Append(crecv[c], ev'.data)
       /\ clients' = clients]_vars

\* C12 witness: a broadcast to two clients in which the send to the first
\* threw and the second received the message.
C12_Witness ==
  \E c, d \in Requests :
    /\ c < d
    /\ ev.kind = "upstream"
    /\ ev.tried = {c, d}
    /\ ev.threw = {c}
    /\ crecv[d][Len(crecv[d])] = ev.data
    /\ \A i \in 1..Len(crecv[c]) : crecv[c][i] # ev.data

\* the bodies of the relayed payloads in log s, in log order
RECURSIVE PayloadBodies(_)
PayloadBodies(s) ==
  IF s = <<>>
    THEN <<>>
    ELSE LET rest == PayloadBodies(Tail(s))
             m == IF "data" \in DOMAIN Head(s) THEN Head(s).data ELSE Head(s)
         IN IF m.type = "payload" THEN <<m.body>> \o rest ELSE rest

\* the entries of log s that client c sent
RECURSIVE FromClient(_, _)
FromClient(s, c) ==
  IF s = <<>>
    THEN <<>>
    ELSE IF "from" \in DOMAIN Head(s) /\ Head(s).from = c
           THEN <<Head(s)>> \o FromClient(Tail(s), c)
           ELSE FromClient(Tail(s), c)

\* bodies are numbered in the order the events reached the instance, so a log
\* is in arrival order exactly when its bodies increase
Increasing(s) == \A i, j \in 1..Len(s) : i < j => s[i] < s[j]

\* C13: forwarding keeps the order of each connection: every client has
\* received the upstream messages relayed to it in the order they arrived, and
\* every upstream connection has received each client's messages in the order
\* that client sent them.  Nothing is claimed across clients.
C13_PerConnectionOrder ==
  /\ \A c \in Requests : Increasing(PayloadBodies(crecv[c]))
  /\ \A h \in Handles, c \in Requests :
       Increasing(PayloadBodies(FromClient(upSent[h], c)))

\* C13 witness: a client has received two relayed upstream messages, or
\* upstream has received two messages of one client, with a message of the
\* other direction relayed as well.
C13_Witness ==
  \E c \in Requests, h \in Handles :
    LET down == PayloadBodies(crecv[c])
        up == PayloadBodies(FromClient(upSent[h], c))
    IN /\ Len(down) + Len(up) >= 3
       /\ Len(down) >= 1
       /\ Len(up) >= 1

\* log s2 is log s1, or s1 with the one message m appended
SameOrAppended(s1, s2, m) == s2 = s1 \/ s2 = Append(s1, m)

\* a message the instance itself composed
IsAuth(m) == "from" \notin DOMAIN m /\ m.type = "auth"
IsConnectionInfo(m) == m.type = "connection_info"

\* C14: forwarding is transparent and the instance originates nothing else:
\* what a client gets from a broadcast is the upstream event's data unchanged,
\* what upstream gets from a client message is that event's data unchanged; a
\* step that handles no message event adds to the logs only the auth message
\* (first on its upstream connection, at most one per connection) and the
\* connection_info (at most one per client).
C14_TransparentRelay ==
  /\ [](/\ \A h \in Handles : \A i \in 1..Len(upSent[h]) :
             IF IsAuth(upSent[h][i])
               THEN i = 1
               ELSE upSent[h][i].data.type = "payload"
        /\ \A c \in Requests : \A i \in 1..Len(crecv[c]) :
             IF IsConnectionInfo(crecv[c][i])
               THEN i = 1
               ELSE crecv[c][i].type = "payload")
  /\ [][/\ ev'.kind = "upstream" =>
             /\ upSent' = upSent
             /\ \A c \in Requests :
                  SameOrAppended(crecv[c], crecv'[c], ev'.data)
        /\ ev'.kind = "client" =>
             /\ crecv' = crecv
             /\ \A h \in Handles :
                  SameOrAppended(upSent[h], upSent'[h],
                                 [from |-> ev'.src, data |-> ev'.data])
        /\ ev'.kind = "none" =>
             /\ \A h \in Handles :
                  SameOrAppended(upSent[h], upSent'[h], buildWebsocketAuthMessage)
             /\ \A c \in Requests :
                  SameOrAppended(crecv[c], crecv'[c], ConnectionInfo(c, TRUE))
                    \/ SameOrAppended(crecv[c], crecv'[c], ConnectionInfo(c, FALSE))]_vars

\* C14 witness: upstream has been sent the auth message and then a client's
\* message unchanged, and that client has been sent its connection_info and
\* then an upstream message unchanged.
C14_Witness ==
  \E c \in Requests, h \in Handles, a, b \in Bodies :
    /\ upSent[h] = <<buildWebsocketAuthMessage, [from |-> c, data |-> Payload(a)]>>
    /\ crecv[c] = <<ConnectionInfo(c, TRUE), Payload(b)>>

\* C15: a client message handled while the liveness flag is false is dropped:
\* send is called on no upstream connection, nothing is sent or closed toward
\* the client, and nothing is kept for later.
C15_NotLiveDrops ==
  [][(ev'.kind = "client" /\ ~haConnected) =>
       /\ ev'.tried = {}
       /\ upSent' = upSent
       /\ crecv' = crecv
       /\ cstate' = cstate
       /\ closeIssued' = closeIssued]_vars

\* C16: the step in which a client's connection closes removes that client
\* from the set and changes nothing else: the upstream handle, the liveness
\* flag, the upstream connections, every other client's membership and every
\* log are as before, also when the client was the last one.
C16_ClientCloseFrame ==
  [][\A c \in Requests :
       (cstate[c] = "open" /\ cstate'[c] = "closed") =>
         /\ clients' = clients \ {c}
         /\ UNCHANGED <<haSocket, haConnected, upState, upSent, crecv,
                        closeIssued, pc, events>>
         /\ \A d \in Requests \ {c} : cstate'[d] = cstate[d]]_vars

\* C16 witness: the only registered client has closed and the session is
\* still live on its open upstream connection.
C16_Witness ==
  \E c \in Requests :
    /\ cstate[c] = "closed"
    /\ closeIssued[c] = 0
    /\ clients = {}
    /\ SessionLive
    /\ upState[haSocket] = "open"
    /\ \A d \in Requests \ {c} : cstate[d] = "none"

\* C17: the step that accepts a client sends it one connection_info carrying
\* its id and the value of the liveness flag in that step; it is the first
\* message the client gets, ahead of every relayed upstream message, and no
\* second one is ever sent; a client never accepted is sent nothing.
C17_OneConnectionInfoFirst ==
  /\ [](\A c \in Requests :
          IF cstate[c] = "none"
            THEN crecv[c] = <<>>
            ELSE /\ Len(crecv[c]) >= 1
                 /\ IsConnectionInfo(crecv[c][1])
                 /\ crecv[c][1].clientId = c
                 /\ \A i \in 2..Len(crecv[c]) : ~IsConnectionInfo(crecv[c][i]))
  /\ [][\A c \in Requests :
          (cstate[c] = "none" /\ cstate'[c] = "open") =>
            /\ crecv'[c] = <<ConnectionInfo(c, haConnected)>>
            /\ haConnected' = haConnected]_vars

\* C17 witness: an accepted client has been sent its connection_info and,
\* after it, a relayed upstream message.
C17_Witness ==
  \E c \in Requests, b \in Bodies :
    /\ cstate[c] = "open"
    /\ c \in clients
    /\ crecv[c] = <<ConnectionInfo(c, haConnected), Payload(b)>>

\* C18: a client is accepted only against a live session: in the step that
\* inserts it into the set the liveness flag is true and an upstream handle
\* is held, so every connection_info ever sent says connected = TRUE.
C18_AcceptedOnlyWhenLive ==
  /\ [](\A c \in Requests : \A i \in 1..Len(crecv[c]) :
          IsConnectionInfo(crecv[c][i]) => crecv[c][i].connected = TRUE)
  /\ [][\A c \in Requests :
          (c \notin clients /\ c \in clients') =>
            /\ haConnected'
            /\ haSocket' # Null]_vars

\* C18 witness: a client accepted by a request that had to reconnect, its
\* connection_info saying connected = TRUE.
C18_Witness ==
  \E c \in Requests :
    /\ c \in clients
    /\ haSocket > 1
    /\ haConnected
    /\ crecv[c][1] = ConnectionInfo(c, TRUE)

\* C19: the client set changes only by the accept path of a /connect request
\* (one insertion), by a client's own close (one removal) and by the teardown
\* of an upstream close (all removed).  A broadcast, also with a send that
\* throws, a client message, also with an upstream send that throws, a
\* /status request, an unknown path and a /connect request that fails leave
\* it as it was.
C19_SetChangesOnlyByAcceptAndRemoval ==
  [][/\ clients' # clients =>
          \/ \E r \in Requests :
               /\ pc[r] # "done" /\ pc'[r] = "done"
               /\ clients' = clients \cup {r}
          \/ \E c \in Requests :
               /\ cstate[c] = "open" /\ cstate'[c] = "closed"
               /\ clients' = clients \ {c}
          \/ \E h \in Handles :
               /\ upState[h] # "closed" /\ upState'[h] = "closed"
               /\ clients' = {}
     /\ (ev'.kind \in {"upstream", "client"} \/ lastResp' # NoResp) =>
          clients' = clients
     /\ (\E r \in Requests : pc[r] # "failed" /\ pc'[r] = "failed") =>
          clients' = clients]_vars

\* C19 witness: with a client registered, a broadcast whose send threw, a
\* /status request or a failed /connect request has just been handled and
\* the client is still registered.
C19_Witness ==
  /\ clients # {}
  /\ \/ ev.kind = "upstream" /\ ev.threw # {}
     \/ ev.kind = "client" /\ ev.threw # {}
     \/ lastResp.status = 200
     \/ lastResp.status = 404
  /\ \E r \in Requests : pc[r] = "failed"

\* the clients accepted so far, and those of them removed since: by their own
\* close, or by the teardown that issued close(1012) on them
Accepted == {c \in Requests : cstate[c] # "none"}
Removed == {c \in Accepted : cstate[c] = "closed" \/ closeIssued[c] = UpstreamLossCode}

\* C20: the set holds exactly the clients accepted and not yet removed by
\* their own close or by an upstream-loss teardown, each once, so its size is
\* the number accepted minus the number removed; and a member leaves the set
\* only in a step that closes it or closes an upstream connection.
C20_MembershipIsAcceptedNotRemoved ==
  /\ [](/\ clients = Accepted \ Removed
        /\ Cardinality(clients) = Cardinality(Accepted) - Cardinality(Removed))
  /\ [][\A c \in clients :
          c \notin clients' =>
            \/ cstate'[c] = "closed"
            \/ closeIssued'[c] = UpstreamLossCode]_vars

\* C20 witness: two clients were accepted, one has closed, and the set holds
\* exactly the other.
C20_Witness ==
  \E c, d \in Requests :
    /\ c # d
    /\ cstate[c] = "closed"
    /\ cstate[d] = "open"
    /\ closeIssued[d] = 0
    /\ clients = {d}

\* C21: a step that answers /status returns the size of the client set and
\* the liveness flag as they are, and neither it nor a step that answers an
\* unknown path with 404 opens an upstream connection or changes the flag,
\* the handle, the set or anything sent so far.
C21_StatusReportsAndChangesNothing ==
  [][/\ lastResp'.status = 200 =>
          /\ lastResp'.clients = Cardinality(clients)
          /\ lastResp'.connected = haConnected
     /\ lastResp'.status \in {200, 404} =>
          UNCHANGED <<haSocket, haConnected, clients, upState, upSent, crecv,
                      cstate, closeIssued, pc>>]_vars

\* C21 witness: /status has just answered with one client registered and the
\* flag false (an error event came before), and both are still so.
C21_Witness ==
  /\ lastResp = [status |-> 200, clients |-> 1, connected |-> FALSE]
  /\ Cardinality(clients) = 1
  /\ ~haConnected
  /\ haSocket # Null

\* C22: no upstream connection leaks: every upstream connection that has been
\* opened and has not closed is the one the handle refers to.
C22_NoLeakedUpstream == \A h \in OpenHandles : h = haSocket

\* the record ids in list s
Ids(s) == {s[i] : i \in 1..Len(s)}

\* C23: no update of the agent's memory is lost: whenever a chat call with a
\* sessionId has completed, the list stored under that session holds the
\* record that call appended, also when another call for the same session ran
\* concurrently.
C23_NoLostMemoryUpdate ==
  \A k \in Chats :
    (chatPc[k] = "done" /\ chatSession[k] # NoSession) =>
      k \in Ids(MEMORY_KV[chatSession[k]])

\* C24: the auth message is the first message on every upstream connection:
\* whatever has been sent on a connection starts with its auth message, so no
\* client message is forwarded on a connection ahead of it.
C24_AuthBeforeClientMessages ==
  \A h \in Handles : upSent[h] # <<>> => IsAuth(upSent[h][1])

\* upstream connection h is open but superseded: the handle refers to a
\* newer connection
Superseded(h) == h \in OpenHandles /\ haSocket # Null /\ haSocket # h

\* C25: a close or error event of a superseded upstream connection leaves
\* the current session alone: the flag and the handle are unchanged and no
\* registered client is closed or removed.
C25_StaleEventsIgnored ==
  [][\A h \in Handles :
       (Superseded(h) /\ upState'[h] # upState[h]) =>
         UNCHANGED <<haSocket, haConnected, clients, closeIssued>>]_vars

\* C26: the teardown of an upstream close survives a close() that throws: in
\* the step that handles the close event, close(1012) has been called on
\* every client that was in the set, whichever call threw, and the step ends
\* with the set empty, the flag false and no handle.
C26_TeardownSurvivesCloseFailure ==
  [][ev'.kind = "close" =>
       /\ ev'.tried = clients
       /\ ev'.threw \subseteq clients
       /\ \A c \in clients : closeIssued'[c] = UpstreamLossCode
       /\ clients' = {}
       /\ ~haConnected'
       /\ haSocket' = Null]_vars

\* C26 witness: a teardown with two clients registered in which close()
\* threw for the first: both have had close(1012) called, the set is empty,
\* the flag false and the handle null.
C26_Witness ==
  \E c, d \in Requests :
    /\ c < d
    /\ ev.kind = "close"
    /\ ev.tried = {c, d}
    /\ ev.threw = {c}
    /\ closeIssued[c] = UpstreamLossCode
    /\ closeIssued[d] = UpstreamLossCode
    /\ clients = {}
    /\ ~haConnected
    /\ haSocket = Null

\* C27: only registered clients reach upstream: a step that forwards a client
\* message calls send on an upstream connection only if the sender is in the
\* client set at that moment.
C27_OnlyMembersForward ==
  [][(ev'.kind = "client" /\ ev'.tried # {}) => ev'.src \in clients]_vars

\* C28: the flag and the handle are consistent: whenever the flag is true a
\* handle is held, and the flag becomes true only in a step that opens an
\* upstream connection and installs it as the handle.
C28_FlagImpliesHandle ==
  /\ [](haConnected => haSocket # Null)
  /\ [][(~haConnected /\ haConnected') =>
          /\ opened' = opened + 1
          /\ haSocket' = opened'
          /\ upState'[haSocket'] = "open"]_vars

\* C28 witness: after an error event had set the flag false, a /connect
\* request has just installed upstream connection 2 and set the flag true.
C28_Witness ==
  \E r \in Requests :
    /\ pc[r] = "installed"
    /\ upState[1] = "errored"
    /\ haSocket = 2
    /\ haConnected

====
